---- MODULE Spec2Model ----
(***************************************************************************)
(* Model of parametric_curve_functions.py: the clamped knot vector         *)
(* (non_periodic_knot), the Cox-de Boor table (blending_func), the curve   *)
(* evaluation (B_spline), and the two drivers B_spline_interact and        *)
(* bezier_poly_interact.  Plotting is reduced to the array reads it makes  *)
(* at the highlight index.                                                 *)
(*                                                                         *)
(* Numbers are exact fractions in lowest terms, standing for the floats of *)
(* the source.  Arrays are functions over 0..len-1, as the source indexes  *)
(* them.                                                                   *)
(***************************************************************************)
EXTENDS Integers, Sequences, FiniteSets, TLC

\* ------------------------------------------------------------------ bounds
\* pt, the number of control points selected, ranges over 0..MaxPt.
MaxPt == 4
\* the order argument k ranges over -NegK..MaxPt+1.
NegK == 2
\* direct calls of blending_func: knot vectors of 1..MaxKnots knots drawn
\* from 0..MaxKnotVal.
MaxKnots == 4
MaxKnotVal == 2

\* --------------------------------------------------------------- fractions
Abs(x) == IF x < 0 THEN -x ELSE x

RECURSIVE gcd(_, _)
gcd(a, b) == IF b = 0 THEN a ELSE gcd(b, a % b)

\* a/b in lowest terms with a positive denominator (b # 0).
Frac(a, b) ==
    LET g == gcd(Abs(a), Abs(b))
        s == IF b < 0 THEN -1 ELSE 1
    IN  [num |-> s * (a \div g), den |-> s * (b \div g)]

Whole(i) == [num |-> i, den |-> 1]
Zero == Whole(0)
One == Whole(1)

\* what numpy's float division by zero leaves in an array: inf or nan.
NonFinite == [num |-> 0, den |-> 0]
Finite(x) == x.den # 0

Add(x, y) ==
    IF ~Finite(x) \/ ~Finite(y) THEN NonFinite
    ELSE LET g == gcd(x.den, y.den)
             L == (x.den \div g) * y.den
         IN  Frac(x.num * (L \div x.den) + y.num * (L \div y.den), L)

Neg(x) == [num |-> -x.num, den |-> x.den]
Sub(x, y) == Add(x, Neg(y))

Mul(x, y) ==
    IF ~Finite(x) \/ ~Finite(y) THEN NonFinite
    ELSE IF x.num = 0 \/ y.num = 0 THEN Zero
    ELSE LET g1 == gcd(Abs(x.num), y.den)
             g2 == gcd(Abs(y.num), x.den)
         IN  [num |-> (x.num \div g1) * (y.num \div g2),
              den |-> (x.den \div g2) * (y.den \div g1)]

Div(x, y) ==
    IF ~Finite(x) \/ ~Finite(y) \/ y.num = 0 THEN NonFinite
    ELSE Mul(x, IF y.num < 0 THEN [num |-> -y.den, den |-> -y.num]
                ELSE [num |-> y.den, den |-> y.num])

Le(x, y) == x.num * y.den <= y.num * x.den
Lt(x, y) == x.num * y.den < y.num * x.den

\* int(x): truncation toward zero.
Trunc(x) == IF x.num >= 0 THEN x.num \div x.den ELSE -((-x.num) \div x.den)

RECURSIVE Pow(_, _)
Pow(x, e) == IF e = 0 THEN One ELSE Mul(x, Pow(x, e - 1))

\* ------------------------------------------------------------------ arrays
len(a) == Cardinality(DOMAIN a)
Empty == [j \in {} |-> Zero]

\* np.arange(lo, hi, step): ceil((hi-lo)/step) values lo + j*step.
arange(lo, hi, step) ==
    LET q == Div(Sub(hi, lo), step)
        m == IF q.num <= 0 THEN 0 ELSE (q.num + q.den - 1) \div q.den
    IN  [j \in 0..(m - 1) |-> Add(lo, Mul(Whole(j), step))]

\* the step of the parameter space, h = 0.01
h == Frac(1, 100)

\* ------------------------------------------------------- non_periodic_knot
\* variant: the closing knots one too low (n-k+1)
non_periodic_knot_low(n, k) ==
    [i \in 0..(n + k) |->
        IF 0 <= i /\ i < k THEN Zero
        ELSE IF k <= i /\ i <= n THEN Whole(i - k + 1)
        ELSE IF n < i /\ i <= n + k THEN Whole(n - k + 1)
        ELSE Zero]

\* variant: the interior knots start at 0 instead of 1 (i-k)
non_periodic_knot_shift(n, k) ==
    [i \in 0..(n + k) |->
        IF 0 <= i /\ i < k THEN Zero
        ELSE IF k <= i /\ i <= n THEN Whole(i - k)
        ELSE IF n < i /\ i <= n + k THEN Whole(n - k + 2)
        ELSE Zero]

non_periodic_knot(n, k) ==
    [i \in 0..(n + k) |->
        IF 0 <= i /\ i < k THEN Zero
        ELSE IF k <= i /\ i <= n THEN Whole(i - k + 1)
        ELSE IF n < i /\ i <= n + k THEN Whole(n - k + 2)
        ELSE Zero]

\* ----------------------------------------------------------- blending_func
\* variant: the interval closed at both ends (u <= hi)
IndicatorClosed(u, lo, hi) ==
    [j \in DOMAIN u |-> IF Le(lo, u[j]) /\ Le(u[j], hi) THEN One ELSE Zero]

\* ((u >= lo) & (u < hi)).astype(int), sample by sample.
Indicator(u, lo, hi) ==
    [j \in DOMAIN u |-> IF Le(lo, u[j]) /\ Lt(u[j], hi) THEN One ELSE Zero]

\* variant: no test of the knot span before dividing
HalfUnguarded(u, span, factor, prev) ==
    [divided |-> TRUE,
     val |-> [j \in DOMAIN u |-> Div(Mul(factor[j], prev[j]), span)]]

\* One half of the two-term recursion: zeros when the knot span is zero,
\* otherwise num * prev / span, sample by sample.
Half(u, span, factor, prev) ==
    IF span.num = 0
    THEN [divided |-> FALSE, val |-> [j \in DOMAIN u |-> Zero]]
    ELSE [divided |-> TRUE,
          val |-> [j \in DOMAIN u |-> Div(Mul(factor[j], prev[j]), span)]]

\* variant: the second numerator with its sign turned (u - u_i[i+d])
RowTermsSign(u, u_i, d, prev) ==
    [i \in 0..(len(u_i) - d - 1) |->
        LET N_ik_1 == Half(u, Sub(u_i[i + d - 1], u_i[i]),
                           [j \in DOMAIN u |-> Sub(u[j], u_i[i])], prev[i])
            N_ik_2 == Half(u, Sub(u_i[i + d], u_i[i + 1]),
                           [j \in DOMAIN u |-> Sub(u[j], u_i[i + d])], prev[i + 1])
        IN  [N_ik_1 |-> N_ik_1, N_ik_2 |-> N_ik_2,
             N_ik |-> [j \in DOMAIN u |-> Add(N_ik_1.val[j], N_ik_2.val[j])]]]

\* variant: the row one entry short (range(len(u_i)-k-1))
RowTermsShort(u, u_i, d, prev) ==
    [i \in 0..(len(u_i) - d - 2) |->
        LET N_ik_1 == Half(u, Sub(u_i[i + d - 1], u_i[i]),
                           [j \in DOMAIN u |-> Sub(u[j], u_i[i])], prev[i])
            N_ik_2 == Half(u, Sub(u_i[i + d], u_i[i + 1]),
                           [j \in DOMAIN u |-> Sub(u_i[i + d], u[j])], prev[i + 1])
        IN  [N_ik_1 |-> N_ik_1, N_ik_2 |-> N_ik_2,
             N_ik |-> [j \in DOMAIN u |-> Add(N_ik_1.val[j], N_ik_2.val[j])]]]

\* Row d of the table together with the two halves of each entry (d >= 2).
RowTerms(u, u_i, d, prev) ==
    [i \in 0..(len(u_i) - d - 1) |->
        LET N_ik_1 == Half(u, Sub(u_i[i + d - 1], u_i[i]),
                           [j \in DOMAIN u |-> Sub(u[j], u_i[i])], prev[i])
            N_ik_2 == Half(u, Sub(u_i[i + d], u_i[i + 1]),
                           [j \in DOMAIN u |-> Sub(u_i[i + d], u[j])], prev[i + 1])
        IN  [N_ik_1 |-> N_ik_1, N_ik_2 |-> N_ik_2,
             N_ik |-> [j \in DOMAIN u |-> Add(N_ik_1.val[j], N_ik_2.val[j])]]]

\* The rows 0..d of the table and, for rows >= 2, the halves they were
\* summed from.
RECURSIVE Rows(_, _, _)
Rows(u, u_i, d) ==
    IF d = 0
    THEN [N |-> [r \in {0} |-> [i \in 0..(len(u_i) - 1) |-> u_i[i]]],
          terms |-> [r \in {} |-> Empty]]
    ELSE LET below == Rows(u, u_i, d - 1)
         IN  IF d = 1
             THEN [N |-> [r \in 0..1 |->
                            IF r = 0 THEN below.N[0]
                            ELSE [i \in 0..(len(u_i) - 2) |->
                                    Indicator(u, u_i[i], u_i[i + 1])]],
                   terms |-> below.terms]
             ELSE LET row == RowTerms(u, u_i, d, below.N[d - 1])
                  IN  [N |-> [r \in 0..d |->
                                 IF r < d THEN below.N[r]
                                 ELSE [i \in DOMAIN row |-> row[i].N_ik]],
                       terms |-> [r \in 2..d |->
                                 IF r < d THEN below.terms[r] ELSE row]]

blending_func(u, u_i, k) == Rows(u, u_i, k)


\* ---------------------------------------------------------------- B_spline
\* P_u after the loop has run for the basis indices below i (the loop adds
\* N[k][i] * P_i[:,i] to both rows of P_u).
RECURSIVE B_spline_loop(_, _, _, _, _)
B_spline_loop(N, u, P_i, k, i) ==
    IF i = 0
    THEN [c \in 0..1 |-> [j \in DOMAIN u |-> Zero]]
    ELSE LET acc == B_spline_loop(N, u, P_i, k, i - 1)
         IN  [c \in 0..1 |->
                [j \in DOMAIN u |->
                    Add(acc[c][j], Mul(N[k][i - 1][j], P_i[c][i - 1]))]]

\* variant: the last control point left out of the sum
B_spline_short(N, u, u_i, P_i, k) == B_spline_loop(N, u, P_i, k, len(u_i) - k - 1)

B_spline(N, u, u_i, P_i, k) == B_spline_loop(N, u, P_i, k, len(u_i) - k)

\* ------------------------------------------------------------ Bezier basis
\* comb(n, i): the binomial coefficient.
RECURSIVE comb(_, _)
comb(n, i) ==
    IF i < 0 \/ i > n THEN 0
    ELSE IF i = 0 THEN 1
    ELSE (comb(n - 1, i - 1) * n) \div i

\* Bi[i] = comb(n,i) * u**i * (1-u)**(n-i), for i = 0..n.
Bernstein(u, n) ==
    [i \in 0..n |->
        [j \in DOMAIN u |->
            Mul(Mul(Whole(comb(n, i)), Pow(u[j], i)),
                Pow(Sub(One, u[j]), n - i))]]

\* P_u after the loop has run for i = 0..n: P_u += Bi[i] * P_i[:,i].
RECURSIVE bezier_loop(_, _, _, _)
bezier_loop(Bi, u, P_i, i) ==
    IF i = 0
    THEN [c \in 0..1 |-> [j \in DOMAIN u |-> Zero]]
    ELSE LET acc == bezier_loop(Bi, u, P_i, i - 1)
         IN  [c \in 0..1 |->
                [j \in DOMAIN u |->
                    Add(acc[c][j], Mul(Bi[i - 1][j], P_i[c][i - 1]))]]

\* ---------------------------------------------------------- control points
\* a 2 x m array from its two rows, given as sequences of fractions.
Points(xs, ys) ==
    [c \in 0..1 |-> [i \in 0..(Len(xs) - 1) |->
                        IF c = 0 THEN xs[i + 1] ELSE ys[i + 1]]]

OneHalf == Frac(1, 2)

BSplineDefault ==
    Points(<<Whole(-2), Whole(-1), Whole(3), Whole(4), Whole(1), Whole(0),
             Whole(2), Whole(0)>>,
           <<Whole(0), Whole(2), Whole(2), Whole(0), Whole(1), OneHalf,
             Neg(OneHalf), Neg(OneHalf)>>)

BezierDefault ==
    Points(<<Whole(-2), Whole(-1), Whole(3), Whole(4), Whole(1), Whole(0),
             Whole(3)>>,
           <<Whole(0), Whole(2), Whole(2), Whole(0), Whole(1), OneHalf,
             Neg(OneHalf)>>)

cols(P) == len(P[0])

\* P[0][i] = x; P[1][i] = y
SetPoint(P, i, x, y) ==
    [c \in 0..1 |-> [P[c] EXCEPT ![i] = IF c = 0 THEN Whole(x) ELSE Whole(y)]]

\* P[:, 0:pt] for pt >= 0
Slice(P, pt) ==
    [c \in 0..1 |->
        [i \in 0..((IF pt < cols(P) THEN pt ELSE cols(P)) - 1) |-> P[c][i]]]

\* a[idx] is inside the array (a negative idx counts from the end).
InRange(a, idx) == (IF idx < 0 THEN idx + len(a) ELSE idx) \in DOMAIN a
At(a, idx) == a[IF idx < 0 THEN idx + len(a) ELSE idx]

\* ------------------------------------------------------------------ inputs
\* callers' control-point arguments: an int (use the defaults) or an array.
CustomPoints ==
    Points(<<Whole(0), Whole(1), Whole(3)>>, <<Whole(0), Whole(2), Neg(OneHalf)>>)
CtrlArgs == {[isInt |-> TRUE, P |-> Empty], [isInt |-> FALSE, P |-> CustomPoints]}
\* (P1x, P1y) of the default set
P1Args == {<<-1, 2>>, <<1, -1>>}
\* (P2x, P2y) of the default set (Bezier only)
P2Args == {<<3, 2>>}
\* the order argument: '' or an integer
KArgs == {[blank |-> TRUE, val |-> 0]}
            \cup {[blank |-> FALSE, val |-> v] : v \in (-NegK)..(MaxPt + 1)}
\* the highlight parameter t, within the documented range 0..1
TArgs == {Zero, Frac(1, 2), Frac(199, 200), One}
\* sample arrays and knot vectors for direct calls of blending_func
CoarseSamples == arange(Zero, Whole(MaxKnotVal + 1), Frac(1, 2))
KnotVectors ==
    UNION {{v \in [0..(m - 1) -> {Whole(x) : x \in 0..MaxKnotVal}] :
                \A i \in 0..(m - 2) : Le(v[i], v[i + 1])} : m \in 1..MaxKnots}

\* ------------------------------------------------------------- diagnostics
TooHighFmt == "Can't draw degreee = %d curve through %d control points"
NotPositiveFmt == "k must be greater than 0"

\* variant: the limit one too high (k > n+2)
order_check_late(n, k) ==
    IF k > n + 2 THEN "too_high"
    ELSE IF k = 0 THEN "zero"
    ELSE "ok"

\* the order check of B_spline_interact
order_check(n, k) ==
    IF k > n + 1 THEN "too_high"
    ELSE IF k = 0 THEN "zero"
    ELSE "ok"

\* ------------------------------------------------------------------- state
VARIABLES
    pc,       \* position: "idle", the next step of the running driver, "done"
    fn,       \* the function the caller invoked
    calls,    \* the functions the driver has called so far
    P_i, n, k, t, u_i, u, N, terms, P_u, Bi,
    printed,  \* console output, one record per print
    raised    \* the exception that ended the call, "" when none

vars == <<pc, fn, calls, P_i, n, k, t, u_i, u, N, terms, P_u, Bi, printed, raised>>

Init ==
    /\ pc = "idle" /\ fn = "" /\ calls = {}
    /\ P_i = Empty /\ n = 0 /\ k = 0 /\ t = Zero
    /\ u_i = Empty /\ u = Empty /\ N = Empty /\ terms = Empty
    /\ P_u = Empty /\ Bi = Empty
    /\ printed = <<>> /\ raised = ""

\* B_spline_interact up to and including the order check.
B_spline_interact ==
    /\ pc = "idle"
    /\ \E ctrl_points \in CtrlArgs, pt \in 0..MaxPt, kArg \in KArgs,
          tArg \in TArgs, P1 \in P1Args :
        LET P  == IF ctrl_points.isInt
                  THEN SetPoint(BSplineDefault, 1, P1[1], P1[2])
                  ELSE ctrl_points.P
            kk == IF kArg.blank THEN 2 ELSE kArg.val
            Ps == Slice(P, pt)
            nn == cols(Ps) - 1
            verdict == order_check(nn, kk)
        IN  /\ fn' = "B_spline_interact"
            /\ P_i' = Ps /\ n' = nn /\ k' = kk /\ t' = tArg
            /\ printed' = IF verdict = "too_high"
                          THEN <<[fmt |-> TooHighFmt, args |-> <<kk, nn + 1>>]>>
                          ELSE IF verdict = "zero"
                          THEN <<[fmt |-> NotPositiveFmt, args |-> <<>>]>>
                          ELSE printed
            /\ pc' = IF verdict = "ok" THEN "non_periodic_knot" ELSE "done"
    /\ UNCHANGED <<calls, u_i, u, N, terms, P_u, Bi, raised>>

\* u_i = non_periodic_knot(n,k); np.zeros refuses a negative length.
KnotStep ==
    /\ pc = "non_periodic_knot"
    /\ calls' = calls \cup {"non_periodic_knot"}
    /\ IF n + k + 1 < 0
       THEN /\ raised' = "ValueError" /\ pc' = "done" /\ u_i' = u_i
       ELSE /\ u_i' = non_periodic_knot(n, k) /\ pc' = "arange"
            /\ raised' = raised
    /\ UNCHANGED <<fn, P_i, n, k, t, u, N, terms, P_u, Bi, printed>>

\* u = np.arange(u_i[k-1], u_i[n+1], h); t = int((t/h)*u_i[-1])
SampleStep ==
    /\ pc = "arange"
    /\ IF InRange(u_i, k - 1) /\ InRange(u_i, n + 1)
       THEN /\ u' = arange(At(u_i, k - 1), At(u_i, n + 1), h)
            /\ t' = Whole(Trunc(Mul(Div(t, h), At(u_i, -1))))
            /\ pc' = "blending_func" /\ raised' = raised
       ELSE /\ raised' = "IndexError" /\ pc' = "done"
            /\ UNCHANGED <<u, t>>
    /\ UNCHANGED <<fn, calls, P_i, n, k, u_i, N, terms, P_u, Bi, printed>>

\* N = blending_func(u,u_i,k)
BlendStep ==
    /\ pc = "blending_func"
    /\ calls' = calls \cup {"blending_func"}
    /\ LET table == blending_func(u, u_i, k)
       IN  N' = table.N /\ terms' = table.terms
    /\ pc' = "B_spline"
    /\ UNCHANGED <<fn, P_i, n, k, t, u_i, u, P_u, Bi, printed, raised>>

\* P_u = B_spline(N,u,u_i,P_i,k)
CurveStep ==
    /\ pc = "B_spline"
    /\ calls' = calls \cup {"B_spline"}
    /\ P_u' = B_spline(N, u, u_i, P_i, k)
    /\ pc' = "plot_bspline_blendfunc"
    /\ UNCHANGED <<fn, P_i, n, k, t, u_i, u, N, terms, Bi, printed, raised>>

\* plot_bspline_blendfunc reads P_u[0][t], P_u[1][t], u[t] and N[k][i][t].
plot_bspline_blendfunc ==
    /\ pc = "plot_bspline_blendfunc"
    /\ calls' = calls \cup {"plot_bspline_blendfunc"}
    /\ raised' = IF InRange(u, t.num) THEN raised ELSE "IndexError"
    /\ pc' = "done"
    /\ UNCHANGED <<fn, P_i, n, k, t, u_i, u, N, terms, P_u, Bi, printed>>

\* bezier_poly_interact up to the selection of the control points.
bezier_poly_interact ==
    /\ pc = "idle"
    /\ \E ctrl_points \in CtrlArgs, pt \in 0..MaxPt, tArg \in TArgs,
          P1 \in P1Args, P2 \in P2Args :
        LET P  == IF ctrl_points.isInt
                  THEN SetPoint(SetPoint(BezierDefault, 1, P1[1], P1[2]),
                                2, P2[1], P2[2])
                  ELSE ctrl_points.P
            Ps == Slice(P, pt)
        IN  /\ fn' = "bezier_poly_interact"
            /\ u' = arange(Zero, One, h)
            /\ t' = Whole(Trunc(Div(tArg, h)))
            /\ P_i' = Ps /\ n' = cols(Ps) - 1
    /\ pc' = "bernstein"
    /\ UNCHANGED <<calls, k, u_i, N, terms, P_u, Bi, printed, raised>>

\* the loop that fills Bi and accumulates P_u
BezierBlend ==
    /\ pc = "bernstein"
    /\ Bi' = Bernstein(u, n)
    /\ P_u' = bezier_loop(Bi', u, P_i, n + 1)
    /\ pc' = "bezier_plot"
    /\ UNCHANGED <<fn, calls, P_i, n, k, t, u_i, u, N, terms, printed, raised>>

\* the plots read P_u[0,t], P_u[1,t], u[t] and Bi[i][t].
BezierPlot ==
    /\ pc = "bezier_plot"
    /\ raised' = IF InRange(u, t.num) THEN raised ELSE "IndexError"
    /\ pc' = "done"
    /\ UNCHANGED <<fn, calls, P_i, n, k, t, u_i, u, N, terms, P_u, Bi, printed>>

\* a direct call of blending_func on any non-decreasing knot vector
BlendingFuncCall ==
    /\ pc = "idle"
    /\ \E knots \in KnotVectors :
        \E order \in 0..(len(knots) + 1) :
            LET table == blending_func(CoarseSamples, knots, order)
            IN  /\ u' = CoarseSamples /\ u_i' = knots /\ k' = order
                /\ N' = table.N /\ terms' = table.terms
    /\ fn' = "blending_func" /\ pc' = "done"
    /\ UNCHANGED <<calls, P_i, n, t, P_u, Bi, printed, raised>>

Next ==
    \/ B_spline_interact
    \/ KnotStep
    \/ SampleStep
    \/ BlendStep
    \/ CurveStep
    \/ plot_bspline_blendfunc
    \/ bezier_poly_interact
    \/ BezierBlend
    \/ BezierPlot
    \/ BlendingFuncCall

Spec == Init /\ [][Next]_vars

\* ------------------------------------------------------------- properties
Computing == {"arange", "blending_func", "B_spline", "plot_bspline_blendfunc"}
ValidOrder == 1 <= k /\ k <= n + 1
BSplineHas(f) == fn = "B_spline_interact" /\ f \in calls
BezierBlended == fn = "bezier_poly_interact" /\ pc \in {"bezier_plot", "done"}
TableBuilt == fn = "blending_func" \/ BSplineHas("blending_func")

KnotsOf(seq) == [i \in 0..(Len(seq) - 1) |-> Whole(seq[i + 1])]

\* the sum of row[i][j] over the basis indices i below m
RECURSIVE SumBelow(_, _, _)
SumBelow(row, j, m) ==
    IF m = 0 THEN Zero ELSE Add(SumBelow(row, j, m - 1), row[m - 1][j])
RowSum(row, j) == SumBelow(row, j, len(row))

Lowest(a) == CHOOSE m \in {a[i] : i \in DOMAIN a} : \A i \in DOMAIN a : Le(m, a[i])
Highest(a) == CHOOSE m \in {a[i] : i \in DOMAIN a} : \A i \in DOMAIN a : Le(a[i], m)

\* C1: for 1 <= k <= n+1 the knot vector returned by non_periodic_knot has
\* n+k+1 entries, is non-decreasing, starts with k zeros, ends with k entries
\* n-k+2, and holds i-k+1 at the positions k..n.
KnotVectorShape ==
    (BSplineHas("non_periodic_knot") /\ ValidOrder) =>
        /\ DOMAIN u_i = 0..(n + k)
        /\ len(u_i) = n + k + 1
        /\ \A i \in 0..(n + k - 1) : Le(u_i[i], u_i[i + 1])
        /\ \A i \in 0..(k - 1) : u_i[i] = Zero
        /\ \A i \in (n + 1)..(n + k) : u_i[i] = Whole(n - k + 2)
        /\ \A i \in k..n : u_i[i] = Whole(i - k + 1)

KnotVectorShapeWitness ==
    BSplineHas("non_periodic_knot") /\ k = 2 /\ n = 3 /\ len(u_i) = 6

\* C2: partition of unity.  On the B-spline path every sample lies in
\* [u_i[k-1], u_i[n+1]) and the order-k row sums to 1 there; on the Bezier
\* path every sample lies in [0,1) and the Bernstein values sum to 1 (n >= 0).
PartitionOfUnity ==
    /\ (BSplineHas("blending_func") /\ ValidOrder) =>
          \A j \in DOMAIN u :
              /\ Le(u_i[k - 1], u[j]) /\ Lt(u[j], u_i[n + 1])
              /\ len(N[k]) = n + 1
              /\ RowSum(N[k], j) = One
    /\ (BezierBlended /\ n >= 0) =>
          \A j \in DOMAIN u :
              /\ Le(Zero, u[j]) /\ Lt(u[j], One)
              /\ len(Bi) = n + 1
              /\ RowSum(Bi, j) = One

PartitionOfUnityWitness ==
    BSplineHas("blending_func") /\ k = 3 /\ n = 3 /\ len(u) = 200
        /\ N[3][1][100] # Zero /\ N[3][1][100] # One

\* C3: an order above the number of selected control points prints the
\* "can't draw" diagnostic, order 0 prints "k must be greater than 0", and in
\* both cases nothing is computed.
NothingComputed ==
    /\ calls = {} /\ raised = "" /\ pc = "done"
    /\ u_i = Empty /\ u = Empty /\ N = Empty /\ terms = Empty /\ P_u = Empty

BoundaryRejection ==
    fn = "B_spline_interact" =>
        /\ k > n + 1 =>
              /\ printed = <<[fmt |-> TooHighFmt, args |-> <<k, n + 1>>]>>
              /\ NothingComputed
        /\ k = 0 =>
              /\ printed = <<[fmt |-> NotPositiveFmt, args |-> <<>>]>>
              /\ NothingComputed

BoundaryRejectionWitness ==
    fn = "B_spline_interact" /\ k = 5 /\ n + 1 = 4 /\ pc = "done"
        /\ Len(printed) = 1

\* C4 (as claimed): the knot, basis and curve steps are reached only when
\* 1 <= k <= n+1; every other order ends in a diagnostic with no computation.
OrderInvariant ==
    fn = "B_spline_interact" =>
        /\ (calls # {} \/ pc \in Computing) => ValidOrder
        /\ (~ValidOrder /\ pc = "done") => Len(printed) = 1 /\ NothingComputed

\* C5: no half of the recursion is divided by a zero knot span; a half whose
\* span is zero is 0 at every sample; every entry is the sum of its halves.
DivisionPolicy ==
    TableBuilt =>
        /\ DOMAIN terms = 2..k
        /\ \A d \in DOMAIN terms :
              /\ DOMAIN terms[d] = DOMAIN N[d]
              /\ \A i \in DOMAIN terms[d] :
                    LET e == terms[d][i]
                        span1 == Sub(u_i[i + d - 1], u_i[i])
                        span2 == Sub(u_i[i + d], u_i[i + 1])
                    IN  /\ e.N_ik_1.divided <=> span1 # Zero
                        /\ e.N_ik_2.divided <=> span2 # Zero
                        /\ \A j \in DOMAIN u :
                              /\ span1 = Zero => e.N_ik_1.val[j] = Zero
                              /\ span2 = Zero => e.N_ik_2.val[j] = Zero
                              /\ Finite(N[d][i][j])
                              /\ N[d][i][j] = Add(e.N_ik_1.val[j], e.N_ik_2.val[j])

DivisionPolicyWitness ==
    /\ BSplineHas("blending_func") /\ k = 3 /\ n = 3
    /\ ~terms[3][0].N_ik_1.divided /\ terms[3][0].N_ik_2.divided
    /\ terms[3][0].N_ik_2.val[50] # Zero

\* C6 (as claimed): with n=3 and k=2 the knot vector is [0,0,1,2,3,4,4] and
\* the degree-1 row at u=1.5 is 1 for i=2 and 0 for every other index.
DegreeOneExampleClaimed ==
    (BSplineHas("blending_func") /\ n = 3 /\ k = 2) =>
        /\ u_i = KnotsOf(<<0, 0, 1, 2, 3, 4, 4>>)
        /\ u[150] = Frac(3, 2)
        /\ \A i \in DOMAIN N[1] : N[1][i][150] = IF i = 2 THEN One ELSE Zero

\* C6 (amended): with n=3 and k=2 the knot vector is [0,0,1,2,3,3], and the
\* degree-1 row at u=1.5 is 1 for i=2 and 0 for every other index; each
\* degree-1 entry i is 1 exactly where u_i[i] <= u < u_i[i+1].
DegreeOneExample ==
    (BSplineHas("blending_func") /\ n = 3 /\ k = 2) =>
        /\ u_i = KnotsOf(<<0, 0, 1, 2, 3, 3>>)
        /\ u[150] = Frac(3, 2)
        /\ DOMAIN N[1] = 0..4
        /\ \A i \in DOMAIN N[1] : N[1][i][150] = IF i = 2 THEN One ELSE Zero
        /\ \A i \in DOMAIN N[1] : \A j \in DOMAIN u :
              N[1][i][j] = One <=> (Le(u_i[i], u[j]) /\ Lt(u[j], u_i[i + 1]))

DegreeOneExampleWitness ==
    BSplineHas("blending_func") /\ n = 3 /\ k = 2 /\ N[1][2][150] = One

\* C7: for P0=(-2,0), P1=(-1,2), P2=(3,2), P3=(4,0) and k=4 the knot vector
\* is [0,0,0,0,1,1,1,1], the samples run over [0,1), the order-4 weights at
\* u=0.5 are 1/8, 3/8, 3/8, 1/8 and the curve point there is
\* 1/8*P0 + 3/8*P1 + 3/8*P2 + 1/8*P3 = (1, 3/2), on the Bezier path as well.
CubicPoints ==
    Points(<<Whole(-2), Whole(-1), Whole(3), Whole(4)>>,
           <<Whole(0), Whole(2), Whole(2), Whole(0)>>)
CubicWeights == <<Frac(1, 8), Frac(3, 8), Frac(3, 8), Frac(1, 8)>>
CubicBlend(c) ==
    Add(Add(Add(Mul(CubicWeights[1], CubicPoints[c][0]),
                Mul(CubicWeights[2], CubicPoints[c][1])),
            Mul(CubicWeights[3], CubicPoints[c][2])),
        Mul(CubicWeights[4], CubicPoints[c][3]))

EndToEndExample ==
    /\ (BSplineHas("B_spline") /\ k = 4 /\ P_i = CubicPoints) =>
          /\ u_i = KnotsOf(<<0, 0, 0, 0, 1, 1, 1, 1>>)
          /\ DOMAIN u = 0..99 /\ u[0] = Zero /\ u[99] = Frac(99, 100)
          /\ u[50] = Frac(1, 2)
          /\ \A i \in 0..3 : N[4][i][50] = CubicWeights[i + 1]
          /\ \A c \in 0..1 : P_u[c][50] = CubicBlend(c)
          /\ P_u[0][50] = One /\ P_u[1][50] = Frac(3, 2)
    /\ (BezierBlended /\ P_i = CubicPoints) =>
          /\ u[50] = Frac(1, 2)
          /\ \A i \in 0..3 : Bi[i][50] = CubicWeights[i + 1]
          /\ \A c \in 0..1 : P_u[c][50] = CubicBlend(c)

EndToEndExampleWitness ==
    BSplineHas("B_spline") /\ k = 4 /\ P_i = CubicPoints /\ pc = "done"
        /\ P_u[1][50] = Frac(3, 2)

\* C8: every weight used for the curve lies in [0,1] and every coordinate of
\* every curve point lies between the lowest and the highest value of that
\* coordinate over the control points used (B-spline and Bezier, n >= 0).
InHull(row) ==
    \A j \in DOMAIN u :
        /\ \A i \in 0..n : Le(Zero, row[i][j]) /\ Le(row[i][j], One)
        /\ RowSum(row, j) = One
        /\ \A c \in 0..1 :
              /\ Le(Lowest(P_i[c]), P_u[c][j])
              /\ Le(P_u[c][j], Highest(P_i[c]))

ConvexHull ==
    /\ (BSplineHas("B_spline") /\ ValidOrder) => InHull(N[k])
    /\ (BezierBlended /\ n >= 0) => InHull(Bi)

ConvexHullWitness ==
    /\ BSplineHas("B_spline") /\ k = 3 /\ n = 3
    /\ Lt(Lowest(P_i[1]), P_u[1][100]) /\ Lt(P_u[1][100], Highest(P_i[1]))

\* C9 (as claimed): row d of the table, 1 <= d <= k, holds len(u_i)-d-1 basis
\* functions, and the row used for the curve holds one per control point.
RowSizesClaimed ==
    /\ TableBuilt => \A d \in 1..k : len(N[d]) = len(u_i) - d - 1
    /\ BSplineHas("blending_func") => len(N[k]) = cols(P_i)

\* C9 (amended): row d of the table, 1 <= d <= k, holds len(u_i)-d basis
\* functions (none once d exceeds len(u_i)), and the row used for the curve
\* holds one per control point.
RowSizes ==
    /\ TableBuilt =>
          /\ DOMAIN N = 0..k
          /\ \A d \in 1..k :
                /\ len(N[d]) = IF d <= len(u_i) THEN len(u_i) - d ELSE 0
                /\ \A i \in DOMAIN N[d] : DOMAIN N[d][i] = DOMAIN u
    /\ BSplineHas("blending_func") => len(N[k]) = cols(P_i)

RowSizesWitness ==
    BSplineHas("blending_func") /\ k = 3 /\ n = 3
        /\ len(N[1]) = 6 /\ len(N[2]) = 5 /\ len(N[3]) = 4

\* C10 (as claimed): for 0 <= t <= 1 the highlight index lies in
\* 0..len(u)-1, so the reads at that index stay inside the arrays.
HighlightInRange ==
    /\ (fn = "bezier_poly_interact" /\ pc # "idle") =>
          /\ 0 <= t.num /\ t.num < len(u)
          /\ raised # "IndexError"
    /\ (fn = "B_spline_interact" /\ ValidOrder
            /\ pc \in {"blending_func", "B_spline", "plot_bspline_blendfunc", "done"}) =>
          /\ 0 <= t.num /\ t.num < len(u)
          /\ raised # "IndexError"
====
